---------------------------- MODULE Spec2Model ----------------------------
(***************************************************************************)
(* traph: nested state containers ("graphs") over React contexts.          *)
(*                                                                         *)
(* The module models                                                       *)
(*   - the JavaScript values the library handles, as tagged records;       *)
(*   - the pure functions mergeGraphData, resolveSubGraphsData,            *)
(*     resolveSubgraphs and getSubgraphs of the latest revision;           *)
(*   - the Provider / useGraph machinery for the three-level nesting       *)
(*     Top > Mid > Bottom used by the test-suite and the README.           *)
(*                                                                         *)
(* Two specifications share the variables:                                 *)
(*   MergeSpec  draws pairs of values and applies mergeGraphData;          *)
(*   Spec       runs merge-updates and provider effects over the nesting.  *)
(***************************************************************************)
EXTENDS Integers, Sequences, FiniteSets, TLC

VARIABLES
    oldValue,   \* MergeSpec: first argument of mergeGraphData
    newValue,   \* MergeSpec: second argument of mergeGraphData
    merged,     \* MergeSpec: the value mergeGraphData returned
    wraps,      \* MergeSpec: how many container levels were put around the base pair
    pc,         \* MergeSpec: "input" before the call, "merged" after it
    store,      \* Spec: graphData state cell of every mounted Provider
    prevProps,  \* Spec: prevProps.current of every mounted Provider
    pending,    \* Spec: passive effects of the last commit not yet run
    dirty,      \* Spec: providers whose setGraphData was called during this flush
    lastUpdate, \* Spec: the last updateGraph call (history)
    before,     \* Spec: the stores as they were when lastUpdate was issued (history)
    root,       \* the graph whose Provider the application renders
    providers,  \* MountSpec: the Providers rendered or created so far
    unrendered, \* MountSpec: the Providers created and not yet rendered
    calls       \* AsyncSpec: the invocations of an async member in flight

mergeVars == <<oldValue, newValue, merged, wraps, pc>>
treeVars == <<store, prevProps, pending, dirty, lastUpdate, before, root>>
mountVars == <<providers, unrendered>>
asyncVars == <<calls>>
vars == <<oldValue, newValue, merged, wraps, pc,
          store, prevProps, pending, dirty, lastUpdate, before, root,
          providers, unrendered, calls>>

---------------------------------------------------------------------------
(* Bounds *)

MaxLen == 2      \* longest sequence among the base values
MaxWraps == 2    \* container levels put around a base pair
MaxVal == 1      \* numbers written by merge-updates are 0..MaxVal
MaxCalls == 3    \* invocations of the async member addToast

---------------------------------------------------------------------------
(* JavaScript values *)

Null == [t |-> "null"]
Undef == [t |-> "undef"]
Num(n) == [t |-> "num", n |-> n]
Str(s) == [t |-> "str", s |-> s]
Bool(b) == [t |-> "bool", b |-> b]
Arr(e) == [t |-> "arr", e |-> e]
Obj(f) == [t |-> "obj", f |-> f]
Graph(id) == [t |-> "graph", id |-> id]

\* A plain object is Obj(f), f a function from the keys it has to their
\* values; a sequence is Arr(e), e a TLA+ sequence.

\* Object.keys(o)
ObjectKeys(o) == DOMAIN o.f

\* o[k]: undefined when the key is missing
Prop(o, k) == IF k \in DOMAIN o.f THEN o.f[k] ELSE Undef

\* a[i] with JavaScript's 0-based index i: undefined beyond the length
At(a, i) == IF i + 1 <= Len(a.e) THEN a.e[i + 1] ELSE Undef

\* isGraph: graph && graph.__isGraph.  A graph handle has the property; so
\* has a plain object into which the properties of a handle were merged.
isGraph(graph) ==
    \/ graph.t = "graph"
    \/ graph.t = "obj" /\ "__isGraph" \in DOMAIN graph.f /\ graph.f["__isGraph"] = Bool(TRUE)
isString(v) == v.t = "str"
isNumber(v) == v.t = "num"
isArray(v) == v.t = "arr"
\* lodash isPlainObject.  Every caller tests isGraph first, and new data holds
\* no graph handle, so a handle never reaches this test.
isPlainObject(v) == v.t = "obj"
\* lodash isObject: objects, arrays (and functions)
isObject(v) == v.t \in {"obj", "arr", "graph"}

MaxOf(a, b) == IF a >= b THEN a ELSE b

---------------------------------------------------------------------------
(* mergeGraphData *)

RECURSIVE mergeGraphData(_, _)
RECURSIVE mergeNoGraphGuard(_, _)
RECURSIVE mergeGraphFirst(_, _)
RECURSIVE mergeEarlyReturn(_, _)
RECURSIVE mergeKeepsOld(_, _)

\* Variant: the isGraph(graph) test is missing, inline data replaces a node.
mergeNoGraphGuard(graph, graphData) ==
    IF graphData = Null \/ graphData = Undef \/ isString(graphData) \/ isNumber(graphData)
        THEN graphData
    ELSE IF isGraph(graph) THEN graphData
    ELSE IF isArray(graphData) THEN
        IF ~isArray(graph) THEN graphData
        ELSE Arr([j \in 1..MaxOf(Len(graphData.e), Len(graph.e)) |->
                LET graphVal == At(graph, j - 1)
                    graphDataVal == At(graphData, j - 1)
                IN  IF graphVal = Undef THEN graphDataVal
                    ELSE IF graphDataVal = Undef THEN graphVal
                    ELSE mergeNoGraphGuard(graphVal, graphDataVal)])
    ELSE IF isPlainObject(graphData) THEN
        IF ~isPlainObject(graph) THEN graphData
        ELSE LET allKeys == ObjectKeys(graph) \cup ObjectKeys(graphData)
             IN  Obj([key \in allKeys |->
                    LET graphVal == Prop(graph, key)
                        graphDataVal == Prop(graphData, key)
                    IN  IF graphVal = Undef THEN graphDataVal
                        ELSE IF graphDataVal = Undef THEN graphVal
                        ELSE mergeNoGraphGuard(graphVal, graphDataVal)])
    ELSE graphData

\* Variant: the isGraph(graph) test comes before the scalar test.
mergeGraphFirst(graph, graphData) ==
    IF isGraph(graph) THEN graph
    ELSE IF graphData = Null \/ graphData = Undef \/ isString(graphData) \/ isNumber(graphData)
        THEN graphData
    ELSE IF isArray(graphData) THEN
        IF ~isArray(graph) THEN graphData
        ELSE Arr([j \in 1..MaxOf(Len(graphData.e), Len(graph.e)) |->
                LET graphVal == At(graph, j - 1)
                    graphDataVal == At(graphData, j - 1)
                IN  IF graphVal = Undef THEN graphDataVal
                    ELSE IF graphDataVal = Undef THEN graphVal
                    ELSE mergeGraphFirst(graphVal, graphDataVal)])
    ELSE IF isPlainObject(graphData) THEN
        IF ~isPlainObject(graph) THEN graphData
        ELSE LET allKeys == ObjectKeys(graph) \cup ObjectKeys(graphData)
             IN  Obj([key \in allKeys |->
                    LET graphVal == Prop(graph, key)
                        graphDataVal == Prop(graphData, key)
                    IN  IF graphVal = Undef THEN graphDataVal
                        ELSE IF graphDataVal = Undef THEN graphVal
                        ELSE mergeGraphFirst(graphVal, graphDataVal)])
    ELSE graphData

\* The first index, 0-based, at which either sequence has no element; -1 if none.
FirstHole(graph, graphData) ==
    LET n == MaxOf(Len(graphData.e), Len(graph.e))
        holes == {i \in 0..(n - 1) : At(graph, i) = Undef \/ At(graphData, i) = Undef}
    IN  IF holes = {} THEN -1 ELSE CHOOSE i \in holes : \A h \in holes : i <= h

\* Variant: the sequence loop of the earlier revision, which leaves the
\* function at the first index missing on one side.
mergeEarlyReturn(graph, graphData) ==
    IF graphData = Null \/ graphData = Undef \/ isString(graphData) \/ isNumber(graphData)
        THEN graphData
    ELSE IF isGraph(graph) THEN graph
    ELSE IF isArray(graphData) THEN
        IF ~isArray(graph) THEN graphData
        ELSE LET hole == FirstHole(graph, graphData)
             IN  IF hole >= 0 THEN
                     IF At(graph, hole) = Undef THEN At(graphData, hole)
                     ELSE At(graph, hole)
                 ELSE Arr([j \in 1..MaxOf(Len(graphData.e), Len(graph.e)) |->
                        mergeEarlyReturn(At(graph, j - 1), At(graphData, j - 1))])
    ELSE IF isPlainObject(graphData) THEN
        IF ~isPlainObject(graph) THEN graphData
        ELSE LET allKeys == ObjectKeys(graph) \cup ObjectKeys(graphData)
             IN  Obj([key \in allKeys |->
                    LET graphVal == Prop(graph, key)
                        graphDataVal == Prop(graphData, key)
                    IN  IF graphVal = Undef THEN graphDataVal
                        ELSE IF graphDataVal = Undef THEN graphVal
                        ELSE mergeEarlyReturn(graphVal, graphDataVal)])
    ELSE graphData

\* Variant: the final branch (booleans and the like) keeps the old value.
mergeKeepsOld(graph, graphData) ==
    IF graphData = Null \/ graphData = Undef \/ isString(graphData) \/ isNumber(graphData)
        THEN graphData
    ELSE IF isGraph(graph) THEN graph
    ELSE IF isArray(graphData) THEN
        IF ~isArray(graph) THEN graphData
        ELSE Arr([j \in 1..MaxOf(Len(graphData.e), Len(graph.e)) |->
                LET graphVal == At(graph, j - 1)
                    graphDataVal == At(graphData, j - 1)
                IN  IF graphVal = Undef THEN graphDataVal
                    ELSE IF graphDataVal = Undef THEN graphVal
                    ELSE mergeKeepsOld(graphVal, graphDataVal)])
    ELSE IF isPlainObject(graphData) THEN
        IF ~isPlainObject(graph) THEN graphData
        ELSE LET allKeys == ObjectKeys(graph) \cup ObjectKeys(graphData)
             IN  Obj([key \in allKeys |->
                    LET graphVal == Prop(graph, key)
                        graphDataVal == Prop(graphData, key)
                    IN  IF graphVal = Undef THEN graphDataVal
                        ELSE IF graphDataVal = Undef THEN graphVal
                        ELSE mergeKeepsOld(graphVal, graphDataVal)])
    ELSE graph

\* mergeGraphData(graph, graphData): graph is the old value, graphData the new.
mergeGraphData(graph, graphData) ==
    IF graphData = Null \/ graphData = Undef \/ isString(graphData) \/ isNumber(graphData)
        THEN graphData
    ELSE IF isGraph(graph) THEN graph
    ELSE IF isArray(graphData) THEN
        IF ~isArray(graph) THEN graphData
        ELSE Arr([j \in 1..MaxOf(Len(graphData.e), Len(graph.e)) |->
                LET graphVal == At(graph, j - 1)
                    graphDataVal == At(graphData, j - 1)
                IN  IF graphVal = Undef THEN graphDataVal
                    ELSE IF graphDataVal = Undef THEN graphVal
                    ELSE mergeGraphData(graphVal, graphDataVal)])
    ELSE IF isPlainObject(graphData) THEN
        IF ~isPlainObject(graph) THEN graphData
        ELSE LET allKeys == ObjectKeys(graph) \cup ObjectKeys(graphData)
             IN  Obj([key \in allKeys |->
                    LET graphVal == Prop(graph, key)
                        graphDataVal == Prop(graphData, key)
                    IN  IF graphVal = Undef THEN graphDataVal
                        ELSE IF graphDataVal = Undef THEN graphVal
                        ELSE mergeGraphData(graphVal, graphDataVal)])
    ELSE graphData

---------------------------------------------------------------------------
(* The graphs of the model *)

\* The graphs with a Provider in Spec.
TreeNodes == {"Top", "Mid", "Bottom"}

\* The first argument each graph was constructed with:
\*   G = traph({key: 'value'})
\*   Bottom = traph({deep: 0}), Mid = traph({middle: 10, bottom: Bottom}),
\*   Top = traph({top: 20, middle: Mid})
initialGraph(id) ==
    CASE id = "G" -> Obj([key |-> Str("value")])
      [] id = "Bottom" -> Obj([deep |-> Num(0)])
      [] id = "Mid" -> Obj([middle |-> Num(10), bottom |-> Graph("Bottom")])
      [] id = "Top" -> Obj([top |-> Num(20), middle |-> Graph("Mid")])
      \* Mark, Susy, Mona = {.., children: [Mark]}, Paul = {.., children: [Mark, Susy]},
      \* People = {paul: Paul, mona: Mona, susy: Susy, mark: Mark}
      [] id = "Mark" -> Obj([name |-> Str("Mark"), age |-> Num(24)])
      [] id = "Susy" -> Obj([name |-> Str("Susy"), age |-> Num(25)])
      [] id = "Mona" -> Obj([name |-> Str("Mona"), age |-> Num(55),
                              children |-> Arr(<<Graph("Mark")>>)])
      [] id = "Paul" -> Obj([name |-> Str("Paul"), age |-> Num(56),
                              children |-> Arr(<<Graph("Mark"), Graph("Susy")>>)])
      [] id = "People" -> Obj([paul |-> Graph("Paul"), mona |-> Graph("Mona"),
                                susy |-> Graph("Susy"), mark |-> Graph("Mark")])
      \* Graph = traph({toasts: traph({nextId: 0, items: [], async addToast(..)})});
      \* the member function is no data, AddToast and Expire are its two halves.
      [] id = "Toasts" -> Obj([nextId |-> Num(0), items |-> Arr(<<>>)])
      [] id = "Toaster" -> Obj([toasts |-> Graph("Toasts")])
      \* A graph with a nested plain object beside a sub graph (README, nested trees).
      [] id = "House" -> Obj([address |-> Str("Storgata 40")])
      [] id = "Account" -> Obj([user |-> Obj([firstName |-> Str("Tormod"),
                                               lastName |-> Str("Haugland")]),
                                 house |-> Graph("House")])
      \* Graph = traph({top: 'value', subgraph: traph({bottom: 'value2'})})
      [] id = "Inner" -> Obj([bottom |-> Str("value2")])
      [] id = "Outer" -> Obj([top |-> Str("value"), subgraph |-> Graph("Inner")])
      \* One graph embedded directly in two sibling graphs,
      [] id = "Kid" -> Obj([name |-> Str("Kid")])
      [] id = "Dad" -> Obj([name |-> Str("Dad"), kid |-> Graph("Kid")])
      [] id = "Mum" -> Obj([name |-> Str("Mum"), kid |-> Graph("Kid")])
      [] id = "Family" -> Obj([dad |-> Graph("Dad"), mum |-> Graph("Mum")])
      \* and one embedded at the top and again two levels further down.
      [] id = "Pet" -> Obj([name |-> Str("Rex")])
      [] id = "Friend" -> Obj([pet |-> Graph("Pet")])
      [] id = "Owner" -> Obj([friend |-> Graph("Friend")])
      [] id = "Home" -> Obj([owner |-> Graph("Owner"), pet |-> Graph("Pet")])
      \* Graph = traph({top: {middle: {bottom: [{name: "User 1"}, {name: "User 2"}]}}})
      \* A graph inside a plain object of the shape, and a graph whose whole
      \* shape is another graph.
      [] id = "Shelf" -> Obj([label |-> Str("shelf"), box |-> Obj([item |-> Graph("Pet")])])
      [] id = "Alias" -> Graph("Pet")
      [] id = "Kennel" -> Obj([pet |-> Graph("Pet"), alias |-> Graph("Alias")])
      \* A graph whose state is a scalar.
      [] id = "Count" -> Num(5)
      [] id = "Nested" ->
            Obj([top |-> Obj([middle |-> Obj([bottom |->
                    Arr(<<Obj([name |-> Str("User 1")]), Obj([name |-> Str("User 2")])>>)])])])

RECURSIVE resolveSubGraphsData(_)
\* The initial data of a shape: every graph replaced by its own initial data.
\* Inside a sequence only the elements that are graphs are resolved.
resolveSubGraphsData(graphData) ==
    IF isGraph(graphData) THEN resolveSubGraphsData(initialGraph(graphData.id))
    ELSE IF isPlainObject(graphData) THEN
        Obj([key \in DOMAIN graphData.f |->
            LET value == graphData.f[key]
            IN  IF isGraph(value) THEN resolveSubGraphsData(initialGraph(value.id))
                ELSE IF isObject(value) THEN resolveSubGraphsData(value)
                ELSE value])
    ELSE IF isArray(graphData) THEN
        Arr([j \in 1..Len(graphData.e) |->
            LET data == graphData.e[j]
            IN  IF isGraph(data) THEN resolveSubGraphsData(data) ELSE data])
    ELSE graphData

\* const initialGraphData = resolveSubGraphsData(initialGraph)
initialGraphData(id) == resolveSubGraphsData(initialGraph(id))

\* The direct entries of a shape that are graphs not in ignoreSubGraphs,
\* as <<key, id>> pairs.
getSubgraphs(graph, ignoreSubGraphs) ==
    IF graph.t = "obj" THEN
        {<<k, graph.f[k].id>> :
            k \in {x \in ObjectKeys(graph) :
                      isGraph(graph.f[x]) /\ graph.f[x].id \notin ignoreSubGraphs}}
    ELSE IF graph.t = "arr" THEN
        {<<j - 1, graph.e[j].id>> :
            j \in {x \in 1..Len(graph.e) :
                      isGraph(graph.e[x]) /\ graph.e[x].id \notin ignoreSubGraphs}}
    ELSE {}

\* Provider.defaultProps
deduplicateProviders == TRUE

RECURSIVE MountsUnder(_, _)
\* The Providers a Provider of graph id renders beneath itself, given its
\* ignoreSubGraphs prop: one per sub graph, each handed the ids of all the
\* sub graphs of id as its own ignoreSubGraphs.
MountsUnder(id, ignoreSubGraphs) ==
    LET subGraphs == getSubgraphs(initialGraph(id), ignoreSubGraphs)
        subGraphIds == {sg[2] : sg \in subGraphs}
    IN  UNION {{[node |-> sg[2], parent |-> id, key |-> sg[1]]}
                 \cup MountsUnder(sg[2], IF deduplicateProviders THEN subGraphIds ELSE {})
               : sg \in subGraphs}

\* <root.Provider> with no props, and everything it mounts.
Mounts == {[node |-> root, parent |-> "none", key |-> "none"]} \cup MountsUnder(root, {})

Mounted == {m.node : m \in Mounts}

MountOf(id) == CHOOSE m \in Mounts : m.node = id

ChildProviders(id) == {m.node : m \in {x \in Mounts : x.parent = id}}

RECURSIVE Subtree(_)
\* A Provider and every Provider rendered beneath it.
Subtree(id) == {id} \cup UNION {Subtree(c) : c \in ChildProviders(id)}

RECURSIVE EffectOrder(_)
\* The order in which one commit runs the effects of a Provider subtree:
\* the Providers nested deepest come first.
EffectOrder(ids) ==
    IF ids = {} THEN <<>>
    ELSE LET leaf == CHOOSE n \in ids : ChildProviders(n) \cap ids = {}
         IN  <<leaf>> \o EffectOrder(ids \ {leaf})

\* graphData[key] of the parent Provider's render: the graphData prop of a sub Provider.
overridenGraphData(id, st) ==
    LET m == MountOf(id)
    IN  IF m.parent = "none" THEN Undef
        ELSE IF st[m.parent].t = "obj" THEN Prop(st[m.parent], m.key)
        ELSE Undef

\* Rendering the Providers in ids and all Providers beneath them schedules the
\* effect of each, with the props of this render.
RenderEffects(ids, st) ==
    LET rendered == UNION {Subtree(n) : n \in ids}
        order == EffectOrder(rendered)
    IN  [j \in 1..Len(order) |->
            [node |-> order[j], graphData |-> overridenGraphData(order[j], st)]]

\* Variant: no two values are taken as equal.
isEqualNever(a, b) == FALSE

\* lodash isEqual: deep structural equality
isEqual(a, b) == a = b

\* JavaScript truthiness, as tested by if (props.graphData)
Truthy(v) ==
    CASE v.t \in {"null", "undef"} -> FALSE
      [] v.t = "num" -> v.n # 0
      [] v.t = "str" -> v.s # ""
      [] v.t = "bool" -> v.b
      [] OTHER -> TRUE

\* The value useGraph throws instead of returning.
NoProviderError == [t |-> "error"]

RECURSIVE resolveSubgraphs(_)
RECURSIVE useGraph(_)
RECURSIVE useGraphStoreOnly(_)

\* Runtime resolution: every graph found in a container is replaced by what
\* its own useGraph returns; a bare graph is returned as it is.
resolveSubgraphs(graph) ==
    IF isGraph(graph) THEN graph
    ELSE IF isPlainObject(graph) THEN
        Obj([key \in DOMAIN graph.f |->
            LET value == graph.f[key]
            IN  IF isGraph(value) THEN useGraph(value.id)
                ELSE IF isObject(value) THEN resolveSubgraphs(value)
                ELSE value])
    ELSE IF isArray(graph) THEN
        Arr([j \in 1..Len(graph.e) |->
            LET data == graph.e[j]
            IN  IF isGraph(data) THEN useGraph(data.id)
                ELSE IF isObject(data) THEN resolveSubgraphs(data)
                ELSE data])
    ELSE graph

\* Variant: the read returns the Provider's own state, sub graphs unresolved.
useGraphStoreOnly(id) ==
    IF id \notin Mounted THEN NoProviderError ELSE store[id]

\* useGraph()[0]: the state of the nearest Provider merged into the initial
\* shape, sub graphs resolved.  The shapes of the model hold no functions, so
\* rebindGraphFunctions copies the value key by key.
useGraph(id) ==
    IF id \notin Mounted THEN NoProviderError
    ELSE resolveSubgraphs(mergeGraphData(initialGraph(id), store[id]))

---------------------------------------------------------------------------
(* The revision whose useGraph takes a path selector *)

\* A function or a React object held by a graph handle; only its name matters.
Opaque(name) == [t |-> "opaque", name |-> name]

\* The object traph() returns, seen as the plain object it is.
OwnProps(graph) ==
    Obj([key \in {"id", "Provider", "useGraph", "Context", "initialGraph", "__isGraph"} |->
            CASE key = "id" -> Str(graph.id)
              [] key = "initialGraph" -> initialGraph(graph.id)
              [] key = "__isGraph" -> Bool(TRUE)
              [] OTHER -> Opaque(key)])

\* A value as lodash isPlainObject and Object.keys see it.
AsPlain(v) == IF v.t = "graph" THEN OwnProps(v) ELSE v

\* The id of the graph whose useGraph a value with __isGraph carries.
GraphIdOf(v) == IF v.t = "graph" THEN v.id ELSE v.f["id"].s

RECURSIVE mergeGraphDataOld(_, _)
\* mergeGraphData of this revision: the loop over two sequences returns from
\* the function at the first index missing on one side.
mergeGraphDataOld(graph, graphData) ==
    IF graphData = Null \/ graphData = Undef \/ isString(graphData) \/ isNumber(graphData)
        THEN graphData
    ELSE IF isGraph(graph) THEN graph
    ELSE IF isArray(graphData) THEN
        IF ~isArray(graph) THEN graphData
        ELSE LET hole == FirstHole(graph, graphData)
             IN  IF hole >= 0 THEN
                     IF At(graph, hole) = Undef THEN At(graphData, hole)
                     ELSE At(graph, hole)
                 ELSE Arr([j \in 1..MaxOf(Len(graphData.e), Len(graph.e)) |->
                        mergeGraphDataOld(At(graph, j - 1), At(graphData, j - 1))])
    ELSE IF isPlainObject(AsPlain(graphData)) THEN
        IF ~isPlainObject(graph) THEN graphData
        ELSE LET data == AsPlain(graphData)
                 allKeys == ObjectKeys(graph) \cup ObjectKeys(data)
             IN  Obj([key \in allKeys |->
                    LET graphVal == Prop(graph, key)
                        graphDataVal == Prop(data, key)
                    IN  IF graphVal = Undef THEN graphDataVal
                        ELSE IF graphDataVal = Undef THEN graphVal
                        ELSE mergeGraphDataOld(graphVal, graphDataVal)])
    ELSE graphData

RECURSIVE resolveSubgraphsOld(_)
RECURSIVE useGraphOld(_)

\* resolveSubgraphs of this revision: a bare graph resolves to null.
resolveSubgraphsOld(graph) ==
    IF isGraph(graph) THEN Null
    ELSE IF isPlainObject(graph) THEN
        Obj([key \in DOMAIN graph.f |->
            LET value == graph.f[key]
            IN  IF isGraph(value) THEN useGraphOld(GraphIdOf(value))
                ELSE IF isObject(value) THEN resolveSubgraphsOld(value)
                ELSE value])
    ELSE IF isArray(graph) THEN
        Arr([j \in 1..Len(graph.e) |->
            LET data == graph.e[j]
            IN  IF isGraph(data) THEN useGraphOld(GraphIdOf(data))
                ELSE IF isObject(data) THEN resolveSubgraphsOld(data)
                ELSE data])
    ELSE graph

\* useGraph()[0] of this revision.
useGraphOld(id) ==
    IF id \notin Mounted THEN NoProviderError
    ELSE resolveSubgraphsOld(mergeGraphDataOld(initialGraph(id), store[id]))

\* finalGraph.hasOwnProperty(key)
hasOwnProperty(v, key) == AsPlain(v).t = "obj" /\ key \in ObjectKeys(AsPlain(v))

\* The names a selector follows by an index in brackets.
IndexedNames == {"bottom", "middle"}

\* The index a key is the decimal text of, -1 for any other key.
IndexOf(key) ==
    IF \E i \in 0..MaxLen : ToString(i) = key
        THEN CHOOSE i \in 0..MaxLen : ToString(i) = key
        ELSE -1

RECURSIVE stringToPath(_)
\* The keys lodash reads out of a path given as a string, the segments being
\* joined by dots: name[i] stands for the two keys name and i.
stringToPath(pathSplit) ==
    IF pathSplit = <<>> THEN <<>>
    ELSE LET segment == Head(pathSplit)
             parts == {p \in IndexedNames \X (0..MaxLen) :
                          segment = p[1] \o "[" \o ToString(p[2]) \o "]"}
         IN  (IF parts = {} THEN <<segment>>
              ELSE LET p == CHOOSE q \in parts : TRUE IN <<p[1], ToString(p[2])>>)
             \o stringToPath(Tail(pathSplit))

RECURSIVE get(_, _)
\* lodash get(object, path) for a path of keys: undefined where the path
\* leaves the objects and sequences.
get(object, path) ==
    IF path = <<>> THEN object
    ELSE IF object.t = "obj" /\ Head(path) \in ObjectKeys(object)
        THEN get(object.f[Head(path)], Tail(path))
    ELSE IF object.t = "arr" /\ IndexOf(Head(path)) >= 0
        THEN get(At(object, IndexOf(Head(path))), Tail(path))
    ELSE Undef

RECURSIVE set(_, _, _)
\* lodash set(object, path, value) for a path given as an array of keys, each
\* key taken as it is: the object with the value at the path; a level that is
\* no object is replaced by a new object, or a new sequence under an index.
set(object, path, value) ==
    IF path = <<>> THEN value
    ELSE IF IndexOf(Head(path)) >= 0 /\ object.t \notin {"obj"} THEN
        LET i == IndexOf(Head(path))
            old == IF object.t = "arr" THEN object ELSE Arr(<<>>)
        IN  Arr([j \in 1..MaxOf(Len(old.e), i + 1) |->
                    IF j = i + 1 THEN set(At(old, i), Tail(path), value)
                    ELSE At(old, j - 1)])
    ELSE LET keys == IF object.t = "obj" THEN ObjectKeys(object) ELSE {}
         IN  Obj([key \in keys \cup {Head(path)} |->
                    IF key = Head(path)
                        THEN set(IF key \in keys THEN object.f[key] ELSE Undef,
                                 Tail(path), value)
                        ELSE object.f[key]])

RECURSIVE useGraphSelector(_, _)
RECURSIVE useGraphNoDelegation(_, _)

\* Variant: a graph at the first segment is treated like any other value,
\* the rest of the path is looked up in it and written into this graph.
useGraphNoDelegation(id, pathSplit) ==
    IF id \notin Mounted THEN [value |-> NoProviderError, update |-> [kind |-> "none"]]
    ELSE LET finalGraph == mergeGraphDataOld(initialGraph(id), store[id])
             propertyOnThisLevel == Head(pathSplit)
         IN  IF finalGraph.t \in {"null", "undef"}
                 THEN [value |-> NoProviderError, update |-> [kind |-> "none"]]
             ELSE IF ~hasOwnProperty(finalGraph, propertyOnThisLevel)
                 THEN [value |-> Null, update |-> [kind |-> "merge", node |-> id]]
             ELSE LET property == AsPlain(finalGraph).f[propertyOnThisLevel]
                  IN  IF Len(pathSplit) > 1
                          THEN [value |-> get(AsPlain(property), stringToPath(Tail(pathSplit))),
                                update |-> [kind |-> "set", node |-> id, path |-> pathSplit]]
                      ELSE [value |-> property,
                            update |-> [kind |-> "key", node |-> id,
                                        key |-> propertyOnThisLevel]]

\* useGraph(selector), selector.split(".") being pathSplit: the value, and what
\* the update function returned with it does (merge: updateGraph(newValue) of
\* graph node; key: updateGraph({[selector]: newValue}); set: lodash set on
\* finalGraph and setGraph of the copy).  A value of NoProviderError stands
\* for the exception thrown instead.
useGraphSelector(id, pathSplit) ==
    IF id \notin Mounted THEN [value |-> NoProviderError, update |-> [kind |-> "none"]]
    ELSE LET finalGraph == mergeGraphDataOld(initialGraph(id), store[id])
             propertyOnThisLevel == Head(pathSplit)
         IN  IF finalGraph.t \in {"null", "undef"}
                 THEN [value |-> NoProviderError, update |-> [kind |-> "none"]]
             ELSE IF ~hasOwnProperty(finalGraph, propertyOnThisLevel)
                 THEN [value |-> Null, update |-> [kind |-> "merge", node |-> id]]
             ELSE LET property == AsPlain(finalGraph).f[propertyOnThisLevel]
                  IN  IF isGraph(property) THEN
                          IF Len(pathSplit) > 1
                              THEN useGraphSelector(GraphIdOf(property), Tail(pathSplit))
                          ELSE [value |-> useGraphOld(GraphIdOf(property)),
                                update |-> [kind |-> "merge", node |-> GraphIdOf(property)]]
                      ELSE IF Len(pathSplit) > 1
                          THEN [value |-> get(property, stringToPath(Tail(pathSplit))),
                                update |-> [kind |-> "set", node |-> id, path |-> pathSplit]]
                      ELSE [value |-> property,
                            update |-> [kind |-> "key", node |-> id,
                                        key |-> propertyOnThisLevel]]

---------------------------------------------------------------------------
(* Spec: merge-updates and provider effects over Top > Mid > Bottom *)

\* The values merge-updates write into the plain fields.
WriteVals == {Num(n) : n \in 0..MaxVal}

\* The names written in the People graphs: a new one and Mark's first one.
NameVals == {Str("John"), Str("Mark")}

\* The non-null values written over a key that was set to null.
ReattachVals == {Bool(TRUE), Num(1), Str("on"), Obj([bottom |-> Str("new")])}

\* The partial values handed to the updateGraph of each graph.
Payloads(id) ==
    CASE id = "Bottom" -> {Obj([deep |-> v]) : v \in WriteVals}
      [] id = "Mid" ->
            {Obj([middle |-> v]) : v \in WriteVals}
            \cup {Obj([bottom |-> Obj([deep |-> v])]) : v \in WriteVals}
            \cup {Obj([middle |-> v, bottom |-> Obj([deep |-> v])]) : v \in WriteVals}
      [] id = "Top" ->
            {Obj([top |-> v]) : v \in WriteVals}
            \cup {Obj([middle |-> Obj([middle |-> v])]) : v \in WriteVals}
            \cup {Obj([middle |-> Obj([bottom |-> Obj([deep |-> v])])]) : v \in WriteVals}
            \cup {Obj([top |-> v,
                         middle |-> Obj([middle |-> v, bottom |-> Obj([deep |-> v])])])
                  : v \in WriteVals}
      [] id = "Mark" -> {Obj([name |-> v]) : v \in NameVals}
      [] id = "Susy" -> {Obj([name |-> v]) : v \in NameVals}
      [] id \in {"Paul", "Mona"} ->
            {Obj([children |-> Arr(<<Obj([name |-> v])>>)]) : v \in NameVals}
      [] id = "Inner" -> {Obj([bottom |-> Str("new")])}
      [] id = "G" -> {Obj([key |-> Str("updated")])}
      [] id \in {"Pet", "Alias"} -> {Obj([name |-> Str("Max")])}
      [] id = "Shelf" -> {Obj([label |-> Str("other")])}
      [] id = "Kennel" -> {Obj([pet |-> Obj([name |-> Str("Max")])])}
      [] id = "Count" -> {Num(9)}
      [] id = "Outer" ->
            {Obj([top |-> Str("other")]), Obj([subgraph |-> Null])}
            \cup {Obj([subgraph |-> v]) : v \in ReattachVals}
      [] id = "People" ->
            {Obj([mark |-> Obj([name |-> v])]) : v \in NameVals}
            \cup {Obj([paul |-> Obj([children |-> Arr(<<Obj([name |-> v])>>)])])
                  : v \in NameVals}

NoUpdate == [node |-> "none", subGraph |-> Undef]

\* <r.Provider> has been rendered for the first time: every state cell holds
\* the initial data of its graph, and the effects of the mount are scheduled.
ProviderInit(r) ==
    /\ root = r
    /\ store = [id \in Mounted |-> initialGraphData(id)]
    /\ prevProps = [id \in Mounted |-> Undef]
    /\ pending = RenderEffects({r}, [id \in Mounted |-> initialGraphData(id)])
    /\ dirty = {}
    /\ lastUpdate = NoUpdate
    /\ before = [id \in Mounted |-> initialGraphData(id)]

TreeInit == ProviderInit("Top")

\* Nothing is being mounted step by step, no async member is running.
MountIdle == providers = <<>> /\ unrendered = <<>>
AsyncIdle == calls = <<>>

MergeIdle ==
    /\ oldValue = Undef
    /\ newValue = Undef
    /\ merged = Undef
    /\ wraps = 0
    /\ pc = "idle"

Init == TreeInit /\ MergeIdle /\ MountIdle /\ AsyncIdle

\* setGraphData(next) leaves the component alone when next is the value it
\* already holds; a container built by mergeGraphData is always a new one.
SameState(old, next) == next.t \notin {"obj", "arr"} /\ next = old

\* updateGraph(subGraph) with a plain payload, called from an event handler
\* of a consumer of graph id, followed by the render it causes.
UpdateGraph(id, subGraph) ==
    /\ pending = <<>>
    /\ id \in Mounted
    /\ LET next == mergeGraphData(store[id], subGraph)
           st == [store EXCEPT ![id] = next]
       IN  /\ store' = st
           /\ pending' = IF SameState(store[id], next) THEN <<>>
                         ELSE RenderEffects({id}, st)
    /\ dirty' = {}
    /\ lastUpdate' = [node |-> id, subGraph |-> subGraph]
    /\ before' = store
    /\ UNCHANGED <<prevProps, root, mergeVars, mountVars, asyncVars>>

\* The effect of one Provider: merge a changed graphData prop into the state.
\* When it was the last effect of the commit, the Providers whose state was
\* set are rendered again, with everything beneath them.
ProviderEffect ==
    /\ pending # <<>>
    /\ LET id == Head(pending).node
           graphData == Head(pending).graphData
           skip == isEqual(prevProps[id], graphData)
           next == mergeGraphData(store[id], graphData)
           sets == ~skip /\ Truthy(graphData) /\ ~SameState(store[id], next)
           st == IF sets THEN [store EXCEPT ![id] = next] ELSE store
           changed == IF sets THEN dirty \cup {id} ELSE dirty
       IN  /\ prevProps' = IF skip THEN prevProps ELSE [prevProps EXCEPT ![id] = graphData]
           /\ store' = st
           /\ IF Tail(pending) # <<>>
                 THEN pending' = Tail(pending) /\ dirty' = changed
                 ELSE pending' = RenderEffects(changed, st) /\ dirty' = {}
    /\ UNCHANGED <<lastUpdate, before, root, mergeVars, mountVars, asyncVars>>

Next ==
    \/ \E id \in TreeNodes : \E subGraph \in Payloads(id) : UpdateGraph(id, subGraph)
    \/ ProviderEffect

Spec == Init /\ [][Next]_vars

RECURSIVE WritesOnly(_, _)
\* Every field a payload names, at any depth, is given the value v.
WritesOnly(subGraph, v) ==
    IF subGraph.t = "obj"
        THEN \A key \in ObjectKeys(subGraph) : WritesOnly(subGraph.f[key], v)
        ELSE subGraph = v

\* The merge-updates that write the number 1.
OnePayloads(id) == {subGraph \in Payloads(id) : WritesOnly(subGraph, Num(1))}

FairNext ==
    \/ \E id \in TreeNodes : \E subGraph \in OnePayloads(id) : UpdateGraph(id, subGraph)
    \/ ProviderEffect

\* React runs the effects of a commit before it handles the next event: a
\* scheduled effect is not postponed for ever.
FairSpec == Init /\ [][FairNext]_vars /\ WF_vars(ProviderEffect)

---------------------------------------------------------------------------
(* DetachSpec: removing a sub graph, writing over it again, replacing the state *)

\* The objects handed to setGraph, the third entry useGraph returns.
Replacements(id) ==
    CASE id = "Inner" -> {Obj([newKey |-> Str("anotherNewValue")])}
      [] id = "Outer" -> {Obj([newKey |-> Str("anotherNewValue")]),
                          Obj([top |-> Str("other"), newKey |-> Str("anotherNewValue")])}

\* setGraph(x): the setGraphData of the Provider of graph id, called from an
\* event handler, followed by the render it causes.
SetGraph(id, x) ==
    /\ pending = <<>>
    /\ id \in Mounted
    /\ LET st == [store EXCEPT ![id] = x]
       IN  /\ store' = st
           /\ pending' = RenderEffects({id}, st)
    /\ dirty' = {}
    /\ lastUpdate' = [node |-> id, subGraph |-> x, replace |-> TRUE]
    /\ before' = store
    /\ UNCHANGED <<prevProps, root, mergeVars, mountVars, asyncVars>>

\* <Graph.Provider> rendered around the component of the test.
DetachInit == ProviderInit("Outer") /\ MergeIdle /\ MountIdle /\ AsyncIdle

DetachNext ==
    \/ \E id \in Mounted : \E subGraph \in Payloads(id) : UpdateGraph(id, subGraph)
    \/ \E id \in Mounted : \E x \in Replacements(id) : SetGraph(id, x)
    \/ ProviderEffect

DetachSpec == DetachInit /\ [][DetachNext]_vars

---------------------------------------------------------------------------
(* AsyncSpec: an async member function that writes before and after a sleep *)

\* lodash isFunction.  A function payload is [t |-> "fn", remove |-> n]:
\* data => ({...data, items: data.items.filter(item => item.id !== n)}).
isFunction(v) == v.t = "fn"
RemoveItem(n) == [t |-> "fn", remove |-> n]

\* Calling a function payload on the state.
Apply(fn, data) ==
    Obj([key \in ObjectKeys(data) \cup {"items"} |->
            IF key = "items"
                THEN Arr(SelectSeq(Prop(data, "items").e,
                                   LAMBDA item : Prop(item, "id") # Num(fn.remove)))
                ELSE data.f[key]])

\* Variant: what a function payload returns is merged into the current state.
updateGraphMerged(graphData, current, subGraph) ==
    IF isFunction(subGraph) THEN mergeGraphData(current, Apply(subGraph, current))
    ELSE mergeGraphData(graphData, subGraph)

\* Variant: the function payload is called on the graphData the updateGraph
\* closure was created with.
updateGraphOnBound(graphData, current, subGraph) ==
    IF isFunction(subGraph) THEN Apply(subGraph, graphData)
    ELSE mergeGraphData(graphData, subGraph)

\* The state after updateGraph(subGraph), for the updateGraph of a render that
\* saw the state graphData, when the state is current: a function payload goes
\* to setGraph, which calls it on the current state; anything else is merged
\* into graphData.
updateGraph(graphData, current, subGraph) ==
    IF isFunction(subGraph) THEN Apply(subGraph, current)
    ELSE mergeGraphData(graphData, subGraph)

\* What the second half of an async member writes: the function payload of
\* addToast, or a plain payload.
LateKinds == {"function", "plain"}

\* toasts.addToast(..) called from a click handler: the member is bound to the
\* read and to the updateGraph of the last render.  It writes nextId and the
\* items with one more, then sleeps.
AddToast(late) ==
    /\ pending = <<>>
    /\ Len(calls) < MaxCalls
    /\ LET this == useGraph("Toasts")
           graphData == store["Toasts"]
           nextId == Prop(this, "nextId").n + 1
           subGraph == Obj([nextId |-> Num(nextId),
                            items |-> Arr(Append(Prop(this, "items").e,
                                                 Obj([id |-> Num(nextId),
                                                      message |-> Str("New message")])))])
           next == updateGraph(graphData, store["Toasts"], subGraph)
           st == [store EXCEPT !["Toasts"] = next]
       IN  /\ calls' = Append(calls, [pc |-> "sleeping", nextId |-> nextId,
                                       graphData |-> graphData, late |-> late])
           /\ store' = st
           /\ pending' = RenderEffects({"Toasts"}, st)
           /\ lastUpdate' = [node |-> "Toasts", subGraph |-> subGraph]
    /\ dirty' = {}
    /\ before' = store
    /\ UNCHANGED <<prevProps, root, mergeVars, mountVars>>

\* The sleep of invocation c is over: the member calls the updateGraph it was
\* bound to once more.
Expire(c) ==
    /\ pending = <<>>
    /\ c \in DOMAIN calls
    /\ calls[c].pc = "sleeping"
    /\ LET subGraph == IF calls[c].late = "function" THEN RemoveItem(calls[c].nextId)
                       ELSE Obj([expired |-> Num(calls[c].nextId)])
           next == updateGraph(calls[c].graphData, store["Toasts"], subGraph)
           st == [store EXCEPT !["Toasts"] = next]
       IN  /\ store' = st
           /\ pending' = RenderEffects({"Toasts"}, st)
           /\ lastUpdate' = [node |-> "Toasts", subGraph |-> subGraph]
    /\ calls' = [calls EXCEPT ![c].pc = "done"]
    /\ dirty' = {}
    /\ before' = store
    /\ UNCHANGED <<prevProps, root, mergeVars, mountVars>>

\* <Graph.Provider> rendered around the toast container.
AsyncInit == ProviderInit("Toaster") /\ MergeIdle /\ MountIdle /\ AsyncIdle

AsyncNext ==
    \/ \E late \in LateKinds : AddToast(late)
    \/ \E c \in 1..MaxCalls : Expire(c)
    \/ ProviderEffect

AsyncSpec == AsyncInit /\ [][AsyncNext]_vars

---------------------------------------------------------------------------
(* PathSpec: reads and writes through path selectors, in the revision that has them *)

\* The selectors the components use, split at the dots.
Selectors ==
    {<<"user", "firstName">>, <<"user">>, <<"house", "address">>, <<"house">>, <<"nickname">>}

\* The selectors that name an element of the sequence in the graph
\* {top: {middle: {bottom: [..]}}}: "top.middle.bottom[1]" and the like.
IndexSelectors ==
    {<<"top", "middle", "bottom[0]">>, <<"top", "middle", "bottom[1]">>,
     <<"top", "middle", "bottom", "1">>}

\* The values written through the update function returned for a selector.
PathVals(pathSplit) ==
    CASE pathSplit \in IndexSelectors ->
            {Obj([name |-> Str("User 3")]), Obj([name |-> Str("User 1")])}
      [] pathSplit = <<"user", "firstName">> -> {Str("Thomas"), Str("Tormod")}
      [] pathSplit = <<"user">> -> {Obj([firstName |-> Str("Thomas")])}
      [] pathSplit = <<"house", "address">> -> {Str("New address"), Str("Storgata 40")}
      [] pathSplit = <<"house">> -> {Obj([address |-> Str("New address")])}
      [] pathSplit = <<"nickname">> -> {Str("Bob"), Obj([nickname |-> Str("Bob")])}

\* The state setGraph receives when the update function described by update
\* is called with value.
writeThrough(update, value) ==
    CASE update.kind = "merge" -> mergeGraphDataOld(store[update.node], value)
      [] update.kind = "key" ->
            mergeGraphDataOld(store[update.node], Obj([key \in {update.key} |-> value]))
      [] update.kind = "set" ->
            set(mergeGraphDataOld(initialGraph(update.node), store[update.node]),
                update.path, value)

\* In this revision the effect has no prevProps test; it runs in the Providers
\* that were rendered with new props, those beneath the ones whose state was set.
RenderEffectsOld(ids, st) ==
    LET rendered == UNION {Subtree(n) \ {n} : n \in ids}
        order == EffectOrder(rendered)
    IN  [j \in 1..Len(order) |->
            [node |-> order[j], graphData |-> overridenGraphData(order[j], st)]]

\* The selectors the components under the Provider of a graph use.
SelectorsOf(id) == IF id = "Nested" THEN IndexSelectors ELSE Selectors

\* A component calls the update function useGraph(selector) returned to it.
PathWrite(pathSplit, value) ==
    /\ pending = <<>>
    /\ pathSplit \in SelectorsOf(root)
    /\ LET update == useGraphSelector(root, pathSplit).update
       IN  /\ update.kind # "none"
           /\ LET st == [store EXCEPT ![update.node] = writeThrough(update, value)]
              IN  /\ store' = st
                  /\ pending' = RenderEffectsOld({update.node}, st)
           /\ lastUpdate' = [node |-> update.node, subGraph |-> value,
                              selector |-> pathSplit, kind |-> update.kind]
    /\ dirty' = {}
    /\ before' = store
    /\ UNCHANGED <<prevProps, root, mergeVars, mountVars, asyncVars>>

\* The effect of one Provider in this revision: a truthy graphData prop is
\* merged into the state.
ProviderEffectOld ==
    /\ pending # <<>>
    /\ LET id == Head(pending).node
           graphData == Head(pending).graphData
           sets == Truthy(graphData)
           st == IF sets THEN [store EXCEPT ![id] = mergeGraphDataOld(store[id], graphData)]
                 ELSE store
           changed == IF sets THEN dirty \cup {id} ELSE dirty
       IN  /\ store' = st
           /\ IF Tail(pending) # <<>>
                 THEN pending' = Tail(pending) /\ dirty' = changed
                 ELSE pending' = RenderEffectsOld(changed, st) /\ dirty' = {}
    /\ UNCHANGED <<prevProps, lastUpdate, before, root, mergeVars, mountVars, asyncVars>>

\* <Account.Provider> or <Graph.Provider> rendered around the components.
PathInit ==
    /\ \E r \in {"Account", "Nested"} : ProviderInit(r)
    /\ MergeIdle /\ MountIdle /\ AsyncIdle

PathNext ==
    \/ \E pathSplit \in Selectors \cup IndexSelectors : \E value \in PathVals(pathSplit) :
          PathWrite(pathSplit, value)
    \/ ProviderEffectOld

PathSpec == PathInit /\ [][PathNext]_vars

---------------------------------------------------------------------------
(* ScopeSpec: a Provider with a graphData prop rendered beneath the top Provider *)

\* What the application renders: <root.Provider> around the components and
\* around <node.Provider graphData={..}> with further components in it.
Scenes ==
    {[root |-> "Outer", node |-> "Inner"], [root |-> "G", node |-> "G"],
     [root |-> "Count", node |-> "Count"]}

\* The graphData props given to the nested Provider.
Overrides(id) ==
    CASE id = "Inner" -> {Obj([bottom |-> Str("override")])}
      [] id = "G" -> {Obj([key |-> Str("override")])}
      [] id = "Count" -> {Num(0), Num(7), Bool(FALSE), Bool(TRUE), Str(""), Str("seven")}

\* The graphs whose useGraph the components beneath the nested Provider call:
\* its own graph, and one no rendered Provider belongs to.
NestedCallers == {"Inner", "G", "Count", "Mark"}

\* Variant: the Provider the top-level render created for the graph is found
\* before a Provider nearer to the component.
useContextOutermost(i, id) ==
    IF id \in Mounted THEN 0
    ELSE IF i > 0 /\ providers[i].node = id THEN i
    ELSE -1

\* Variant: the nearest Provider above the component is found, whichever graph
\* it belongs to.
useContextNearest(i, id) ==
    IF i > 0 THEN i
    ELSE IF id \in Mounted THEN 0
    ELSE -1

\* useContext(Context) of graph id in a component beneath the nested Provider
\* i (0: beneath the Providers of the top-level render only): i when that
\* Provider is one of the graph, 0 when the top-level render made one, -1 for
\* the null no Provider replaced.
useContext(i, id) ==
    IF i > 0 /\ providers[i].node = id THEN i
    ELSE IF id \in Mounted THEN 0
    ELSE -1

\* useGraph() of graph id in such a component: the value, and the Provider
\* whose state updateGraph sets.  A value of NoProviderError stands for the
\* exception thrown instead; nothing is returned then.
useGraphUnder(i, id) ==
    LET graphContext == useContext(i, id)
    IN  IF graphContext = -1
            THEN [value |-> NoProviderError, update |-> [kind |-> "none"]]
        ELSE IF graphContext = 0
            THEN [value |-> useGraph(id),
                  update |-> [kind |-> "merge", provider |-> 0, graphData |-> store[id]]]
        ELSE [value |-> resolveSubgraphs(mergeGraphData(initialGraph(id),
                                            providers[graphContext].graphData)),
              update |-> [kind |-> "merge", provider |-> graphContext,
                          graphData |-> providers[graphContext].graphData]]

\* The first render: the Providers of the top-level render as in ProviderInit,
\* and the nested Provider with its state cell and its effect still to run.
ScopeInit ==
    /\ \E scene \in Scenes : \E graphData \in Overrides(scene.node) :
          /\ ProviderInit(scene.root)
          /\ providers = <<[node |-> scene.node, props |-> [graphData |-> graphData],
                             graphData |-> initialGraphData(scene.node),
                             prevProps |-> Undef, effect |-> TRUE]>>
    /\ unrendered = <<>>
    /\ MergeIdle
    /\ AsyncIdle

\* The effect of the nested Provider.
NestedEffect ==
    /\ providers[1].effect
    /\ LET props == providers[1].props
           graphData == providers[1].graphData
           skip == isEqual(providers[1].prevProps, props.graphData)
       IN  providers' =
             [providers EXCEPT
                ![1].effect = FALSE,
                ![1].prevProps = IF skip THEN @ ELSE props.graphData,
                ![1].graphData = IF ~skip /\ Truthy(props.graphData)
                                    THEN mergeGraphData(graphData, props.graphData)
                                    ELSE @]
    /\ UNCHANGED <<treeVars, unrendered, mergeVars, asyncVars>>

\* A component beneath the nested Provider calls useGraph() of graph id and,
\* in an event handler, the updateGraph it got.  Its own graph and graphs
\* without any Provider are called; a graph that embeds the nested Provider's
\* graph is not.
NestedUpdate(id, subGraph) ==
    /\ pending = <<>>
    /\ ~providers[1].effect
    /\ id = providers[1].node \/ id \notin Mounted
    /\ LET update == useGraphUnder(1, id).update
       IN  IF update.kind = "none" THEN
               /\ lastUpdate' = [node |-> id, subGraph |-> Undef, thrown |-> TRUE]
               /\ UNCHANGED <<store, pending, providers>>
           ELSE
               /\ lastUpdate' = [node |-> id, subGraph |-> subGraph, thrown |-> FALSE]
               /\ LET next == updateGraph(update.graphData, update.graphData, subGraph)
                  IN  IF update.provider = 0 THEN
                          /\ store' = [store EXCEPT ![id] = next]
                          /\ pending' = IF SameState(store[id], next) THEN <<>>
                                        ELSE RenderEffects({id}, [store EXCEPT ![id] = next])
                          /\ UNCHANGED providers
                      ELSE
                          /\ providers' = [providers EXCEPT ![update.provider].graphData = next]
                          /\ UNCHANGED <<store, pending>>
    /\ dirty' = {}
    /\ before' = store
    /\ UNCHANGED <<prevProps, root, unrendered, mergeVars, asyncVars>>

\* A component outside the nested Provider calls updateGraph, once the effects
\* of the first render have run.
OuterUpdate(id, subGraph) ==
    /\ ~providers[1].effect
    /\ UpdateGraph(id, subGraph)

ScopeNext ==
    \/ NestedEffect
    \/ ProviderEffect
    \/ \E id \in NestedCallers : \E subGraph \in Payloads(id) : NestedUpdate(id, subGraph)
    \/ \E id \in {"Outer", "Inner", "G", "Count"} : \E subGraph \in Payloads(id) :
          OuterUpdate(id, subGraph)

ScopeSpec == ScopeInit /\ [][ScopeNext]_vars

---------------------------------------------------------------------------
(* MountSpec: the Providers a top-level Provider renders, one render at a time *)

\* Every graph of the model; each has a Provider an application can render.
GraphIds ==
    {"Top", "Mid", "Bottom", "People", "Paul", "Mona", "Susy", "Mark", "Outer", "Inner",
     "Family", "Dad", "Mum", "Kid", "Home", "Owner", "Friend", "Pet",
     "Toaster", "Toasts", "Account", "House", "Nested", "G", "Count",
     "Shelf", "Alias", "Kennel"}

\* The ids an application passes in the ignoreSubGraphs prop, if it passes any.
IgnorableIds == {"Mid", "Kid", "Pet"}

RECURSIVE SeqOf(_)
\* The entries of a set one after the other.  The model's objects carry no
\* key order; which sub Provider comes first does not change what is mounted.
SeqOf(S) ==
    IF S = {} THEN <<>>
    ELSE LET x == CHOOSE y \in S : TRUE IN <<x>> \o SeqOf(S \ {x})

StoresIdle ==
    /\ store = <<>>
    /\ prevProps = <<>>
    /\ pending = <<>>
    /\ dirty = {}
    /\ lastUpdate = NoUpdate
    /\ before = <<>>

\* The application renders <r.Provider ignoreSubGraphs=.. deduplicateProviders=..>.
MountInit ==
    /\ root \in GraphIds
    /\ \E ignoreSubGraphs \in SUBSET IgnorableIds : \E dedup \in BOOLEAN :
          providers = <<[node |-> root, key |-> "none", parent |-> 0,
                         ignoreSubGraphs |-> ignoreSubGraphs,
                         deduplicateProviders |-> dedup]>>
    /\ unrendered = <<1>>
    /\ StoresIdle
    /\ MergeIdle
    /\ AsyncIdle

\* One Provider renders: it creates a Provider for every sub graph that
\* getSubgraphs returns, each with the ids of these sub graphs as its
\* ignoreSubGraphs.  React renders the new Providers next, depth first.
MountRender ==
    /\ unrendered # <<>>
    /\ LET i == Head(unrendered)
           props == providers[i]
           subGraphs == SeqOf(getSubgraphs(initialGraph(props.node), props.ignoreSubGraphs))
           subGraphIds == {subGraphs[j][2] : j \in 1..Len(subGraphs)}
           created == [j \in 1..Len(subGraphs) |->
                          [node |-> subGraphs[j][2], key |-> subGraphs[j][1], parent |-> i,
                           ignoreSubGraphs |->
                               IF props.deduplicateProviders THEN subGraphIds ELSE {},
                           deduplicateProviders |-> props.deduplicateProviders]]
       IN  /\ providers' = providers \o created
           /\ unrendered' = [j \in 1..Len(created) |-> Len(providers) + j] \o Tail(unrendered)
    /\ UNCHANGED <<treeVars, mergeVars, asyncVars>>

MountNext == MountRender

MountSpec == MountInit /\ [][MountNext]_vars

---------------------------------------------------------------------------
(* PeopleSpec: a graph mounted at several locations *)

\* <People.Provider> rendered around the components of the test.
PeopleInit == ProviderInit("People") /\ MergeIdle /\ MountIdle /\ AsyncIdle

PeopleNext ==
    \/ \E id \in Mounted : \E subGraph \in Payloads(id) : UpdateGraph(id, subGraph)
    \/ ProviderEffect

PeopleSpec == PeopleInit /\ [][PeopleNext]_vars

---------------------------------------------------------------------------
(* ReadSpec: components reading under the Provider of one graph *)

\* The graphs the application renders the Provider of, one per behaviour.
ReadRoots == {"Paul", "Mona", "Outer", "Shelf", "Kennel"}

ReadInit ==
    /\ \E r \in ReadRoots : ProviderInit(r)
    /\ MergeIdle
    /\ MountIdle
    /\ AsyncIdle

\* A component renders with useGraph() of graph id: oldValue is what
\* resolveSubgraphs is called with, merged what it returns.
Read(id) ==
    /\ pending = <<>>
    /\ id \in Mounted
    /\ oldValue' = mergeGraphData(initialGraph(id), store[id])
    /\ merged' = useGraph(id)
    /\ pc' = "read"
    /\ UNCHANGED <<newValue, wraps, treeVars, mountVars, asyncVars>>

ReadNext ==
    \/ \E id \in GraphIds : Read(id)
    \/ \E id \in {"Paul", "Mona", "Outer", "Inner", "Shelf", "Kennel", "Pet", "Alias"} :
          \E subGraph \in Payloads(id) : UpdateGraph(id, subGraph)
    \/ ProviderEffect

ReadSpec == ReadInit /\ [][ReadNext]_vars

---------------------------------------------------------------------------
(* MergeSpec: mergeGraphData applied to pairs of values *)

\* graph handle of MergeSpec
G == Graph("G")

\* Scalars, and the entries of the base containers.  New data is plain: it
\* holds no graph handle (the README lists injecting one as undefined).
PlainLeaves == {Null, Undef, Num(1), Str("x"), Bool(TRUE), Bool(FALSE)}
PlainArrLeaves == {Undef, Num(1)}
BaseKeys == {"a", "b"}

BaseObjects(leaves) ==
    {Obj(f) : f \in UNION {[keys -> leaves] : keys \in SUBSET BaseKeys}}

BaseArrays(leaves) == {Arr(e) : e \in UNION {[1..n -> leaves] : n \in 0..MaxLen}}

\* Old values: scalars, a graph handle, containers of them one level deep.
OldValues ==
    PlainLeaves \cup {G} \cup BaseObjects(PlainLeaves \cup {G})
        \cup BaseArrays(PlainArrLeaves \cup {G})

\* New values: the same without graph handles.
NewValues == PlainLeaves \cup BaseObjects(PlainLeaves) \cup BaseArrays(PlainArrLeaves)

\* No Provider is mounted while mergeGraphData is called on its own.
TreeIdle ==
    /\ store = <<>>
    /\ prevProps = <<>>
    /\ pending = <<>>
    /\ dirty = {}
    /\ lastUpdate = NoUpdate
    /\ before = <<>>
    /\ root = "none"

MergeInit ==
    /\ oldValue \in OldValues
    /\ newValue \in NewValues
    /\ merged = Undef
    /\ wraps = 0
    /\ pc = "input"
    /\ TreeIdle
    /\ MountIdle
    /\ AsyncIdle

\* Both arguments become the property a of an object.
NestInObject ==
    /\ pc = "input"
    /\ wraps < MaxWraps
    /\ oldValue' = Obj([a |-> oldValue])
    /\ newValue' = Obj([a |-> newValue])
    /\ wraps' = wraps + 1
    /\ UNCHANGED <<merged, pc, treeVars, mountVars, asyncVars>>

\* Both arguments become the property a of an object that has a second
\* property b, a number on the old side and a string on the new side.
NestBesideSibling ==
    /\ pc = "input"
    /\ wraps < MaxWraps
    /\ oldValue' = Obj([a |-> oldValue, b |-> Num(1)])
    /\ newValue' = Obj([a |-> newValue, b |-> Str("x")])
    /\ wraps' = wraps + 1
    /\ UNCHANGED <<merged, pc, treeVars, mountVars, asyncVars>>

\* Both arguments become the only element of a sequence.
NestInArray ==
    /\ pc = "input"
    /\ wraps < MaxWraps
    /\ oldValue' = Arr(<<oldValue>>)
    /\ newValue' = Arr(<<newValue>>)
    /\ wraps' = wraps + 1
    /\ UNCHANGED <<merged, pc, treeVars, mountVars, asyncVars>>

\* The call mergeGraphData(oldValue, newValue).
Merge ==
    /\ pc = "input"
    /\ merged' = mergeGraphData(oldValue, newValue)
    /\ pc' = "merged"
    /\ UNCHANGED <<oldValue, newValue, wraps, treeVars, mountVars, asyncVars>>

MergeNext ==
    \/ NestInObject
    \/ NestBesideSibling
    \/ NestInArray
    \/ Merge

MergeSpec == MergeInit /\ [][MergeNext]_vars

---------------------------------------------------------------------------
(* ShapeSpec: resolveSubGraphsData called on the first argument of traph *)

\* Initial shapes: scalars, the graph G, the graph Mid that embeds Bottom, and
\* containers of them one level deep; the actions nest them further.
ShapeLeaves == PlainLeaves \cup {G, Graph("Mid")}
Shapes ==
    ShapeLeaves \cup BaseObjects(ShapeLeaves)
        \cup BaseArrays(PlainArrLeaves \cup {G, Graph("Mid")})

ShapeInit ==
    /\ oldValue \in Shapes
    /\ newValue = Undef
    /\ merged = Undef
    /\ wraps = 0
    /\ pc = "input"
    /\ TreeIdle
    /\ MountIdle
    /\ AsyncIdle

\* The shape becomes the property a of an object.
ShapeInObject ==
    /\ pc = "input"
    /\ wraps < MaxWraps
    /\ oldValue' = Obj([a |-> oldValue])
    /\ wraps' = wraps + 1
    /\ UNCHANGED <<newValue, merged, pc, treeVars, mountVars, asyncVars>>

\* The shape becomes the only element of a sequence.
ShapeInArray ==
    /\ pc = "input"
    /\ wraps < MaxWraps
    /\ oldValue' = Arr(<<oldValue>>)
    /\ wraps' = wraps + 1
    /\ UNCHANGED <<newValue, merged, pc, treeVars, mountVars, asyncVars>>

\* traph(oldValue): const initialGraphData = resolveSubGraphsData(initialGraph)
Extract ==
    /\ pc = "input"
    /\ merged' = resolveSubGraphsData(oldValue)
    /\ pc' = "extracted"
    /\ UNCHANGED <<oldValue, newValue, wraps, treeVars, mountVars, asyncVars>>

ShapeNext ==
    \/ ShapeInObject
    \/ ShapeInArray
    \/ Extract

ShapeSpec == ShapeInit /\ [][ShapeNext]_vars

---------------------------------------------------------------------------
(* Properties of mergeGraphData, checked under MergeSpec *)

ScalarTags == {"null", "undef", "str", "num"}

RECURSIVE IsPlain(_)
\* No graph handle anywhere in the value.
IsPlain(v) ==
    CASE v.t = "graph" -> FALSE
      [] v.t = "obj" -> \A k \in ObjectKeys(v) : IsPlain(v.f[k])
      [] v.t = "arr" -> \A j \in 1..Len(v.e) : IsPlain(v.e[j])
      [] OTHER -> TRUE

\* C1: when the new value is null, undefined, a string or a number, the
\* result is the new value, whatever the old value is.
C1_ScalarOverride ==
    (pc = "merged" /\ newValue.t \in ScalarTags) => merged = newValue

\* C1 witness: a graph handle was merged with null and null came back.
C1_Witness ==
    pc = "merged" /\ isGraph(oldValue) /\ newValue = Null /\ merged = Null

\* C2 as stated: merging any plain value into a graph handle returns the handle.
C2_NodeInvariantForAnyPlain ==
    (pc = "merged" /\ isGraph(oldValue) /\ IsPlain(newValue)) => merged = oldValue

\* C2 amended: merging a boolean, a plain container or a sequence into a
\* graph handle returns the handle; merging null, undefined, a string or a
\* number into it returns that new value.
C2_NodeKeptUnlessScalar ==
    (pc = "merged" /\ isGraph(oldValue) /\ IsPlain(newValue)) =>
        merged = IF newValue.t \in ScalarTags THEN newValue ELSE oldValue

\* C2 witness: a plain container was merged into a graph handle, the handle came back.
C2_Witness ==
    pc = "merged" /\ oldValue = G /\ newValue.t = "obj" /\ merged = G

\* C3 as stated: for two plain containers the result has the union of the
\* keys; a key of one side only keeps that side's value, and a key of both
\* sides holds mergeGraphData(old[k], new[k]), also for an explicit undefined.
C3_KeyUnionRecursive ==
    (pc = "merged" /\ oldValue.t = "obj" /\ newValue.t = "obj") =>
        /\ merged.t = "obj"
        /\ ObjectKeys(merged) = ObjectKeys(oldValue) \cup ObjectKeys(newValue)
        /\ \A k \in ObjectKeys(oldValue) \ ObjectKeys(newValue) : merged.f[k] = oldValue.f[k]
        /\ \A k \in ObjectKeys(newValue) \ ObjectKeys(oldValue) : merged.f[k] = newValue.f[k]
        /\ \A k \in ObjectKeys(oldValue) \cap ObjectKeys(newValue) :
              merged.f[k] = mergeGraphData(oldValue.f[k], newValue.f[k])

\* C4 as stated: for two sequences the result has the length of the longer;
\* an index of both holds mergeGraphData(old[i], new[i]), an index of one side
\* only holds that side's element.
C4_IndexUnionRecursive ==
    (pc = "merged" /\ oldValue.t = "arr" /\ newValue.t = "arr") =>
        /\ merged.t = "arr"
        /\ Len(merged.e) = MaxOf(Len(oldValue.e), Len(newValue.e))
        /\ \A j \in 1..Len(merged.e) :
              merged.e[j] =
                  IF j > Len(newValue.e) THEN oldValue.e[j]
                  ELSE IF j > Len(oldValue.e) THEN newValue.e[j]
                  ELSE mergeGraphData(oldValue.e[j], newValue.e[j])

RECURSIVE NodesKept(_, _, _)
\* At every position, under keys and indices present on both sides, where old
\* holds a graph handle and new a container, res holds that handle.
NodesKept(old, new, res) ==
    IF isGraph(old) THEN (new.t \in {"obj", "arr"} => res = old)
    ELSE IF old.t = "obj" /\ new.t = "obj" THEN
        /\ res.t = "obj"
        /\ \A k \in ObjectKeys(old) \cap ObjectKeys(new) :
              NodesKept(old.f[k], new.f[k], res.f[k])
    ELSE IF old.t = "arr" /\ new.t = "arr" THEN
        /\ res.t = "arr"
        /\ \A j \in 1..Len(old.e) :
              j <= Len(new.e) => (j <= Len(res.e) /\ NodesKept(old.e[j], new.e[j], res.e[j]))
    ELSE TRUE

C6_BooleanAlwaysWins ==
    (pc = "merged" /\ newValue.t = "bool") => merged = newValue

\* C6 amended: a boolean new value is returned for every old value that is
\* not a graph handle; over a graph handle the handle is returned.
C6_BooleanWinsUnlessNode ==
    (pc = "merged" /\ newValue.t = "bool") =>
        merged = IF isGraph(oldValue) THEN oldValue ELSE newValue

\* C6 witness: a boolean replaced a plain container.
C6_Witness ==
    pc = "merged" /\ oldValue.t = "obj" /\ newValue = Bool(FALSE) /\ merged = Bool(FALSE)

\* C7: merging a plain value with itself gives that value back.
C7_MergeIdempotent ==
    (pc = "merged" /\ oldValue = newValue /\ IsPlain(oldValue)) => merged = oldValue

\* C7 witness: a container in a sequence in a container, merged with itself.
C7_Witness ==
    /\ pc = "merged"
    /\ oldValue = Obj([a |-> Arr(<<Obj([a |-> Num(1), b |-> Null])>>)])
    /\ newValue = oldValue
    /\ merged = oldValue

---------------------------------------------------------------------------
(* Properties of the nesting, checked under Spec *)

RECURSIVE Dig(_, _)
\* The value at a path of keys; undefined where the path leaves the objects.
Dig(v, path) ==
    IF path = <<>> THEN v
    ELSE IF v.t = "arr" THEN Dig(At(v, Head(path)), Tail(path))
    ELSE IF v.t # "obj" THEN Undef
    ELSE Dig(Prop(v, Head(path)), Tail(path))

RECURSIVE PathBetween(_, _)
\* The keys leading from the Provider of graph n down to that of graph d.
PathBetween(n, d) ==
    IF d = n THEN <<>>
    ELSE PathBetween(n, MountOf(d).parent) \o <<MountOf(d).key>>

TopRead(v) ==
    Obj([top |-> Num(20),
           middle |-> Obj([middle |-> Num(10), bottom |-> Obj([deep |-> v])])])

\* C8: before any update Top reads {top:20, middle:{middle:10, bottom:{deep:0}}};
\* after a merge-update {deep: v} through Bottom, the reads of Bottom, Mid and
\* Top all show v at deep.
C8_BottomWriteSeenByAll ==
    /\ lastUpdate = NoUpdate => useGraph("Top") = TopRead(Num(0))
    /\ lastUpdate.node = "Bottom" =>
          LET v == Prop(lastUpdate.subGraph, "deep")
          IN  /\ Dig(useGraph("Bottom"), <<"deep">>) = v
              /\ Dig(useGraph("Mid"), <<"bottom", "deep">>) = v
              /\ Dig(useGraph("Top"), <<"middle", "bottom", "deep">>) = v

\* C8 witness: {deep: 1} was written through Bottom and Top reads it.
C8_Witness ==
    /\ pending = <<>>
    /\ lastUpdate = [node |-> "Bottom", subGraph |-> Obj([deep |-> Num(1)])]
    /\ useGraph("Top") = TopRead(Num(1))

\* What the reads of graph d and of the Providers above it, up to graph n,
\* show at the field of d that a payload of n names.
ShownBy(n, d, field, v) ==
    \A a \in {x \in Mounted : d \in Subtree(x) /\ x \in Subtree(n)} :
        Dig(useGraph(a), PathBetween(a, d) \o <<field>>) = v

\* C9 as stated: once the effects have run, a field of a descendant set by a
\* merge-update through an ancestor shows the written value in the
\* descendant's read and in every ancestor's read.
C9_DownwardPropagation ==
    (pending = <<>> /\ lastUpdate # NoUpdate) =>
        LET n == lastUpdate.node
        IN  \A d \in Subtree(n) \ {n} :
                \A field \in {"middle", "deep"} :
                    LET v == Dig(lastUpdate.subGraph, PathBetween(n, d) \o <<field>>)
                    IN  (v # Undef /\ field \in ObjectKeys(initialGraphData(d))
                            /\ ~isGraph(initialGraph(d).f[field]))
                        => ShownBy(n, d, field, v)

\* C10 as stated: a merge-update through graph n that names nothing at or
\* below the mount position of a descendant d leaves the state of d as it was.
C10_LocalWriteKeepsSubgraphs ==
    lastUpdate # NoUpdate =>
        LET n == lastUpdate.node
        IN  \A d \in Subtree(n) \ {n} :
                Dig(lastUpdate.subGraph, PathBetween(n, d)) = Undef
                    => store[d] = before[d]

---------------------------------------------------------------------------
(* Properties of a graph mounted at several locations, checked under PeopleSpec *)

\* The positions at which graph n embeds Mark, as paths of keys and indices.
MarkPositions(n) ==
    CASE n = "Mark" -> {<<>>}
      [] n \in {"Paul", "Mona"} -> {<<"children", 0>>}
      [] n = "People" -> {<<"mark">>, <<"paul", "children", 0>>, <<"mona", "children", 0>>}
      [] OTHER -> {}

\* C11 as stated: after a merge-update through any position at which Mark is
\* embedded, every read that reaches Mark through a parent equals Mark's own
\* read, and that read shows the name that was written.
C11_MultiMountConsistency ==
    (pending = <<>> /\ lastUpdate # NoUpdate) =>
        /\ \A n \in Mounted : \A p \in MarkPositions(n) :
              Dig(useGraph(n), p) = useGraph("Mark")
        /\ \A p \in MarkPositions(lastUpdate.node) :
              LET v == Dig(lastUpdate.subGraph, p \o <<"name">>)
              IN  v # Undef => Dig(useGraph("Mark"), <<"name">>) = v

---------------------------------------------------------------------------
(* Properties of the mounting, checked under MountSpec *)

\* How many Providers of graph id there are.
ProvidersOf(id) == Cardinality({i \in 1..Len(providers) : providers[i].node = id})

\* C12 as stated: under one top-level Provider with deduplication on, every
\* graph has at most one Provider, at any nesting depth.
C12_MountedAtMostOnce ==
    (providers[1].deduplicateProviders /\ providers[1].ignoreSubGraphs = {}) =>
        \A id \in GraphIds : ProvidersOf(id) <= 1

---------------------------------------------------------------------------
(* Properties of removed sub graphs and of setGraph, checked under DetachSpec *)

\* The last write was made by setGraph.
IsReplace(u) == "replace" \in DOMAIN u

\* The state of Outer holds null at the key of its sub graph.
Detached == store["Outer"].t = "obj" /\ Prop(store["Outer"], "subgraph") = Null

\* The read of Outer shows null at the key of its sub graph.
DetachedRead == Dig(useGraph("Outer"), <<"subgraph">>) = Null

\* C13: a merge-update {subgraph: null} through Outer makes the read of Outer
\* show null at subgraph, and the read keeps showing null through every later
\* step (effects, writes of other keys, writes through the sub graph) until
\* a write through Outer names subgraph again or replaces the state.
C13_DetachedUntilWritten ==
    [][LET wrote == lastUpdate' # lastUpdate /\ lastUpdate'.node = "Outer"
           wroteKey == wrote /\ (IsReplace(lastUpdate')
                                    \/ "subgraph" \in ObjectKeys(lastUpdate'.subGraph))
           wroteNull == wrote /\ ~IsReplace(lastUpdate')
                              /\ Prop(lastUpdate'.subGraph, "subgraph") = Null
       IN  /\ wroteNull => (Detached' /\ DetachedRead')
           /\ (Detached /\ ~wroteKey) => (Detached' /\ DetachedRead')]_vars

\* C13 witness: the sub graph was removed, then written through its own
\* accessor, and Outer still reads null.
C13_Witness ==
    /\ root = "Outer"
    /\ pending = <<>>
    /\ lastUpdate.node = "Inner"
    /\ store["Inner"] = Obj([bottom |-> Str("new")])
    /\ Detached
    /\ useGraph("Outer") = Obj([top |-> Str("value"), subgraph |-> Null])

\* C14 as stated: once the effects have run after a merge-update that sets a
\* removed key to a non-null value, the read of Outer shows the sub graph's
\* own read at the key, and the sub graph's state is what it was before.
C14_ReattachKeepsChildData ==
    (/\ root = "Outer"
     /\ pending = <<>>
     /\ lastUpdate.node = "Outer"
     /\ ~IsReplace(lastUpdate)
     /\ Prop(lastUpdate.subGraph, "subgraph") \notin {Null, Undef}
     /\ Prop(before["Outer"], "subgraph") = Null)
    => /\ Dig(useGraph("Outer"), <<"subgraph">>) = useGraph("Inner")
       /\ store["Inner"] = before["Inner"]

\* C15 as stated: after setGraph(x) the state is x, and the read has the
\* keys of x only.
C15_ReplaceIsVerbatim ==
    (root = "Outer" /\ IsReplace(lastUpdate)) =>
        LET n == lastUpdate.node
            x == lastUpdate.subGraph
        IN  /\ store[n] = x
            /\ useGraph(n).t = "obj"
            /\ ObjectKeys(useGraph(n)) = ObjectKeys(x)

---------------------------------------------------------------------------
(* Properties of async member functions, checked under AsyncSpec *)

\* The ids of the items in the state of Toasts.
ItemIds == {Prop(Prop(store["Toasts"], "items").e[j], "id").n :
                j \in 1..Len(Prop(store["Toasts"], "items").e)}

\* C16 as stated: the write a member makes after its sleep, plain or function
\* payload, is merged into (or called on) the state as it is at that moment.
C16_MergesAgainstLatest ==
    [][\A c \in DOMAIN calls :
          (calls[c].pc = "sleeping" /\ calls'[c].pc = "done") =>
              store'["Toasts"] =
                  IF isFunction(lastUpdate'.subGraph)
                      THEN Apply(lastUpdate'.subGraph, store["Toasts"])
                      ELSE mergeGraphData(store["Toasts"], lastUpdate'.subGraph)]_vars

\* Every invocation so far removes its item with the function payload.
AllRemoveByFunction == \A c \in DOMAIN calls : calls[c].late = "function"

\* C17: when every invocation removes its own item with a function payload,
\* the items are exactly those of the invocations still asleep, in every
\* interleaving: none is missing, none removed by another invocation, none
\* restored, and no item is left after the last removal.
C17_QueuedToasts ==
    AllRemoveByFunction =>
        /\ ItemIds = {calls[c].nextId : c \in {x \in DOMAIN calls : calls[x].pc = "sleeping"}}
        /\ Len(Prop(store["Toasts"], "items").e)
              = Cardinality({x \in DOMAIN calls : calls[x].pc = "sleeping"})
        /\ \A c, d \in DOMAIN calls : c # d => calls[c].nextId # calls[d].nextId

\* C17 witness: the second toast was added while the first was shown, the
\* first has been removed and the second is still there.
C17_Witness ==
    /\ AllRemoveByFunction
    /\ Len(calls) = 2
    /\ calls[1].pc = "done"
    /\ calls[2].pc = "sleeping"
    /\ calls[2].graphData = Obj([nextId |-> Num(1),
                                 items |-> Arr(<<Obj([id |-> Num(1),
                                                      message |-> Str("New message")])>>)])
    /\ Prop(store["Toasts"], "items")
          = Arr(<<Obj([id |-> Num(2), message |-> Str("New message")])>>)

\* finalGraph of the top graph as it was when the last update function was
\* obtained.
FinalBefore == mergeGraphDataOld(initialGraph(root), before[root])

\* The value the first segment of the last selector named at that time.
HeadBefore ==
    IF hasOwnProperty(FinalBefore, Head(lastUpdate.selector))
        THEN AsPlain(FinalBefore).f[Head(lastUpdate.selector)]
        ELSE Undef

RECURSIVE Partial(_, _)
\* The object that holds value under the keys of path, one inside the other.
Partial(path, value) ==
    IF path = <<>> THEN value
    ELSE Obj([key \in {Head(path)} |-> Partial(Tail(path), value)])

\* C18: when the first segment of a path names a child graph, the accessor is
\* the child's own accessor for the rest of the path (the child's whole
\* resolved value and its merge when nothing is left), and a write through it
\* changes the child's state as the child's own update does and leaves the
\* parent's state as it was.
C18_PathDelegatesToChild ==
    /\ \A pathSplit \in Selectors :
          LET finalGraph == mergeGraphDataOld(initialGraph(root), store[root])
              propertyOnThisLevel == Head(pathSplit)
          IN  (/\ hasOwnProperty(finalGraph, propertyOnThisLevel)
               /\ isGraph(AsPlain(finalGraph).f[propertyOnThisLevel])) =>
                 LET child == GraphIdOf(AsPlain(finalGraph).f[propertyOnThisLevel])
                     result == useGraphSelector(root, pathSplit)
                 IN  IF Len(pathSplit) > 1
                         THEN result = useGraphSelector(child, Tail(pathSplit))
                         ELSE /\ result.value = useGraphOld(child)
                              /\ result.update = [kind |-> "merge", node |-> child]
    /\ (lastUpdate # NoUpdate /\ isGraph(HeadBefore)) =>
          LET child == GraphIdOf(HeadBefore)
          IN  /\ lastUpdate.node = child
              /\ store[root] = before[root]
              /\ store[child] = mergeGraphDataOld(before[child],
                                    Partial(Tail(lastUpdate.selector), lastUpdate.subGraph))

\* C18 witness: the address was written through "house.address"; it is in the
\* state of House and the state of Account was left alone.
C18_Witness ==
    /\ lastUpdate # NoUpdate
    /\ lastUpdate.selector = <<"house", "address">>
    /\ lastUpdate.subGraph = Str("New address")
    /\ isGraph(HeadBefore)
    /\ before["House"] = Obj([address |-> Str("Storgata 40")])
    /\ store["House"] = Obj([address |-> Str("New address")])
    /\ useGraphSelector(root, <<"house", "address">>).value = Str("New address")
    /\ store[root] = before[root]

RECURSIVE ResolveBefore(_)
RECURSIVE ReadBefore(_)

\* The resolved value a graph read when the last update function was obtained.
ResolveBefore(graph) ==
    IF isGraph(graph) THEN Null
    ELSE IF isPlainObject(graph) THEN
        Obj([key \in DOMAIN graph.f |->
            IF isGraph(graph.f[key]) THEN ReadBefore(GraphIdOf(graph.f[key]))
            ELSE IF isObject(graph.f[key]) THEN ResolveBefore(graph.f[key])
            ELSE graph.f[key]])
    ELSE IF isArray(graph) THEN
        Arr([j \in 1..Len(graph.e) |->
            IF isGraph(graph.e[j]) THEN ReadBefore(GraphIdOf(graph.e[j]))
            ELSE IF isObject(graph.e[j]) THEN ResolveBefore(graph.e[j])
            ELSE graph.e[j]])
    ELSE graph

ReadBefore(id) == ResolveBefore(mergeGraphDataOld(initialGraph(id), before[id]))

\* C19: a write through a path of several segments whose first segment is no
\* child graph changes the value at that path and nothing else: the siblings
\* at every level of the path, the fields that hold child graphs and the
\* resolved values of the children read as before.
C19_PathWriteTouchesOnlyItsPath ==
    (/\ lastUpdate # NoUpdate
     /\ pending = <<>>
     /\ Len(lastUpdate.selector) > 1
     /\ hasOwnProperty(FinalBefore, Head(lastUpdate.selector))
     /\ ~isGraph(HeadBefore)) =>
        LET path == lastUpdate.selector
            now == useGraphOld(root)
            was == ReadBefore(root)
        IN  /\ get(now, path) = lastUpdate.subGraph
            /\ \A i \in 1..Len(path) :
                  LET prefix == SubSeq(path, 1, i - 1)
                      level == get(was, prefix)
                  IN  level.t = "obj" =>
                        \A key \in ObjectKeys(level) \ {path[i]} :
                            get(now, prefix \o <<key>>) = get(was, prefix \o <<key>>)
            /\ \A id \in Mounted \ {root} : useGraphOld(id) = ReadBefore(id)

\* C20: when the first segment of a path names no field of the graph, the
\* accessor returns null without an error, and a write through its update
\* function adds the written value as a top-level entry and keeps the fields
\* the graph had.
C20_AbsentHeadWriteAddsEntry ==
    /\ \A pathSplit \in Selectors :
          LET finalGraph == mergeGraphDataOld(initialGraph(root), store[root])
          IN  (finalGraph.t \notin {"null", "undef"}
                 /\ ~hasOwnProperty(finalGraph, Head(pathSplit))) =>
                /\ useGraphSelector(root, pathSplit).value = Null
                /\ useGraphSelector(root, pathSplit).update.kind # "none"
    /\ (lastUpdate # NoUpdate
          /\ ~hasOwnProperty(FinalBefore, Head(lastUpdate.selector))) =>
          /\ lastUpdate.node = root
          /\ store[root].t = "obj"
          /\ \A key \in (IF before[root].t = "obj" THEN ObjectKeys(before[root]) ELSE {}) :
                Prop(store[root], key) = Prop(before[root], key)
          /\ IF lastUpdate.subGraph.t = "obj"
                THEN \A key \in ObjectKeys(lastUpdate.subGraph) :
                        Prop(store[root], key) = lastUpdate.subGraph.f[key]
                ELSE Prop(store[root], Head(lastUpdate.selector)) = lastUpdate.subGraph

\* The position in the sequence an index selector names.
IndexTarget(pathSplit) ==
    CASE pathSplit = <<"top", "middle", "bottom[0]">> -> 0
      [] pathSplit = <<"top", "middle", "bottom[1]">> -> 1
      [] pathSplit = <<"top", "middle", "bottom", "1">> -> 1

\* The sequence under top.middle.bottom of a resolved value.
BottomOf(v) == Prop(Prop(Prop(v, "top"), "middle"), "bottom")

\* C21: a path whose remainder has an index segment reads the element of the
\* sequence at that index, and after a write of v through the update function
\* returned for it the same path reads v and the other elements of the
\* sequence are as they were.
C21_IndexPathRoundTrip ==
    root = "Nested" =>
        /\ \A pathSplit \in IndexSelectors :
              useGraphSelector(root, pathSplit).value
                  = At(BottomOf(useGraphOld(root)), IndexTarget(pathSplit))
        /\ lastUpdate # NoUpdate =>
              LET now == BottomOf(useGraphOld(root))
                  was == BottomOf(ReadBefore(root))
              IN  /\ useGraphSelector(root, lastUpdate.selector).value = lastUpdate.subGraph
                  /\ isArray(now)
                  /\ Len(now.e) = Len(was.e)
                  /\ \A j \in 0..(Len(was.e) - 1) :
                        j # IndexTarget(lastUpdate.selector) => At(now, j) = At(was, j)

\* The step is an updateGraph call of a component beneath the nested Provider.
NestedCallStep == lastUpdate' # lastUpdate /\ "thrown" \in DOMAIN lastUpdate'

\* C22: a write through the accessor of the nested Provider's graph, made
\* beneath that Provider, changes the state of that Provider only: the states
\* of the Providers of the top-level render, and what a component outside the
\* nested Provider reads, are as before.
C22_ScopeIsolation ==
    [][(NestedCallStep /\ lastUpdate'.node = providers[1].node) =>
          /\ store' = store
          /\ useGraph(providers[1].node)' = useGraph(providers[1].node)
          /\ useGraphUnder(0, providers[1].node)' = useGraphUnder(0, providers[1].node)
          /\ providers'[1].graphData
                = mergeGraphData(providers[1].graphData, lastUpdate'.subGraph)]_vars

\* C22 witness: beneath the nested Provider the sub graph reads the written
\* value, outside it the initial one.
C22_Witness ==
    /\ root = "Outer"
    /\ "thrown" \in DOMAIN lastUpdate
    /\ lastUpdate.node = "Inner"
    /\ providers[1].props.graphData = Obj([bottom |-> Str("override")])
    /\ useGraphUnder(1, "Inner").value = Obj([bottom |-> Str("new")])
    /\ useGraphUnder(0, "Inner").value = Obj([bottom |-> Str("value2")])
    /\ useGraph("Outer") = Obj([top |-> Str("value"),
                                 subgraph |-> Obj([bottom |-> Str("value2")])])

\* C23: once the effect of a Provider rendered with a graphData prop has run,
\* the Provider's state is that prop merged into the initial data, whatever
\* the prop is, 0, false and "" included.
C23_OverrideDominates ==
    [][(providers[1].effect /\ ~providers'[1].effect) =>
          providers'[1].graphData
              = mergeGraphData(initialGraphData(providers[1].node),
                               providers[1].props.graphData)]_vars

\* C24: useGraph of a graph without a Provider above the component throws:
\* there is no value and no update function, and no state changes.
C24_NoProviderThrows ==
    [][/\ \A i \in {0, 1} : \A id \in NestedCallers :
            (id \notin Mounted /\ providers[1].node # id) =>
                useGraphUnder(i, id)
                    = [value |-> NoProviderError, update |-> [kind |-> "none"]]
       /\ (NestedCallStep /\ lastUpdate'.node \notin Mounted
                           /\ lastUpdate'.node # providers[1].node) =>
            /\ lastUpdate'.thrown
            /\ store' = store
            /\ providers' = providers
            /\ pending' = pending]_vars

\* C24 witness: Mark.useGraph() was called beneath <Outer.Provider> and the
\* nested <Inner.Provider>; it threw and the states are the ones before.
C24_Witness ==
    /\ root = "Outer"
    /\ "thrown" \in DOMAIN lastUpdate
    /\ lastUpdate.thrown
    /\ lastUpdate.node = "Mark"
    /\ useGraphUnder(1, "Mark").value = NoProviderError
    /\ store = before
    /\ providers[1].graphData = Obj([bottom |-> Str("override")])

\* The step is the updateGraph call with a function payload that ends the
\* sleep of invocation c.
FunctionPayloadStep(c) ==
    /\ c \in DOMAIN calls
    /\ calls[c].pc = "sleeping"
    /\ calls'[c].pc = "done"
    /\ calls[c].late = "function"

\* C26 as claimed: after updateGraph(f) the state is what f returns for the
\* current state, merged into the current state.
C26_FunctionResultMerged ==
    [][\A c \in 1..MaxCalls :
          FunctionPayloadStep(c) =>
              store'["Toasts"]
                  = mergeGraphData(store["Toasts"],
                                   Apply(RemoveItem(calls[c].nextId), store["Toasts"]))]_vars

\* C26 as the code has it: after updateGraph(f) the state is what f returns
\* for the current state, taken as the complete new state; no merge restores
\* what the result leaves out.
C26_FunctionResultReplaces ==
    [][\A c \in 1..MaxCalls :
          FunctionPayloadStep(c) =>
              /\ store'["Toasts"] = Apply(RemoveItem(calls[c].nextId), store["Toasts"])
              /\ \A item \in {Prop(store'["Toasts"], "items").e[j] :
                                    j \in 1..Len(Prop(store'["Toasts"], "items").e)} :
                    Prop(item, "id") # Num(calls[c].nextId)]_vars

\* C26 witness: a function payload removed the first of two toasts; the state
\* holds the second only.
C26_Witness ==
    /\ Len(calls) = 2
    /\ calls[1].late = "function"
    /\ calls[1].pc = "done"
    /\ calls[2].pc = "sleeping"
    /\ lastUpdate.subGraph = RemoveItem(1)
    /\ store["Toasts"] = Obj([nextId |-> Num(2),
                               items |-> Arr(<<Obj([id |-> Num(2),
                                                    message |-> Str("New message")])>>)])

RECURSIVE InitialData(_)
\* The initial data of a shape as claimed: containers and sequences walked at
\* every depth, each graph replaced by the initial data of its own shape.
InitialData(shape) ==
    CASE shape.t = "graph" -> InitialData(initialGraph(shape.id))
      [] shape.t = "obj" -> Obj([key \in ObjectKeys(shape) |-> InitialData(shape.f[key])])
      [] shape.t = "arr" -> Arr([j \in 1..Len(shape.e) |-> InitialData(shape.e[j])])
      [] OTHER -> shape

\* C25: resolveSubGraphsData(shape) holds no graph handle, wherever the shape
\* holds its graphs: in a container, in a sequence, in a container inside a
\* sequence, in a sequence inside a sequence; each graph is replaced by the
\* initial data of its own shape.
C25_InitialDataIsPlain ==
    pc = "extracted" => (IsPlain(merged) /\ merged = InitialData(oldValue))

\* C27: in a graph that embeds sub graphs as direct fields, the state of every
\* Provider stays free of graph handles under merge-updates and path writes
\* with plain payloads, and a write through a path of several segments into a
\* plain field stores the previous state merged with the value of the first
\* segment, rebuilt with the addressed property replaced.
C27_StoredDataStaysPlain ==
    root = "Account" =>
        /\ \A id \in Mounted : IsPlain(store[id])
        /\ (/\ lastUpdate # NoUpdate
             /\ Len(lastUpdate.selector) > 1
             /\ hasOwnProperty(FinalBefore, Head(lastUpdate.selector))
             /\ ~isGraph(HeadBefore)) =>
                store[root]
                    = mergeGraphDataOld(before[root],
                        Obj([key \in {Head(lastUpdate.selector)} |->
                                set(HeadBefore, Tail(lastUpdate.selector),
                                    lastUpdate.subGraph)]))

\* C28: resolveSubgraphs called with a value that is a graph itself, not a
\* container holding one, returns what that graph's own useGraph() reads.
C28_BareGraphResolves ==
    [][\A id \in GraphIds :
          (pc' = "read" /\ oldValue' = Graph(id)) => merged' = useGraph(id)']_vars

RECURSIVE Throws(_)
\* The read did not return: a useGraph called while resolving it threw.
Throws(v) ==
    CASE v.t = "error" -> TRUE
      [] v.t = "obj" -> \E key \in ObjectKeys(v) : Throws(v.f[key])
      [] v.t = "arr" -> \E j \in 1..Len(v.e) : Throws(v.e[j])
      [] OTHER -> FALSE

\* C29: under the Provider of a graph, useGraph() of that graph never throws
\* for want of a Provider: every graph the resolution reaches in the shape,
\* those inside a nested plain object or a sequence included, has one.
C29_ReadNeverThrows == ~Throws(useGraph(root))

\* C30: the effects that follow a write come to an end, in a state where no
\* effect is left to run, and an effect whose graphData prop equals the one
\* its Provider merged last merges nothing.
C30_PropagationTerminates ==
    /\ (pending # <<>>) ~> (pending = <<>>)
    /\ [][(pending # <<>> /\ prevProps[Head(pending).node] = Head(pending).graphData) =>
            (store' = store /\ prevProps' = prevProps)]_vars

\* C30 witness: a write through Top reached the state of Bottom, the effects
\* are over, and each Provider remembers the graphData it merged last.
C30_Witness ==
    /\ pending = <<>>
    /\ lastUpdate = [node |-> "Top",
                      subGraph |-> Obj([middle |-> Obj([bottom |-> Obj([deep |-> Num(1)])])])]
    /\ store["Bottom"] = Obj([deep |-> Num(1)])
    /\ prevProps["Bottom"] = Obj([deep |-> Num(1)])
    /\ prevProps["Mid"] = Prop(store["Top"], "middle")

=============================================================================
